---- MODULE Spec2Model ----
(***************************************************************************)
(* A model of the telemetry pipeline: the upload endpoint of the           *)
(* telemetry.go.dev server (handleUpload, validate), alone and with        *)
(* several requests in flight, the client upload pass (Uploader.Run), the  *)
(* upload package's logger (SetLogOutput, LogIfDebug) and the crash        *)
(* monitor's child-process scenario.                                       *)
(*                                                                         *)
(* Text is modelled as a sequence of one-character strings, so that        *)
(* parsing (time.Parse, semver.IsValid, strings.Cut) and formatting        *)
(* (fmt.Sprintf) are computed character by character.                      *)
(***************************************************************************)
EXTENDS Integers, Sequences, FiniteSets, TLC

VARIABLES
    bucket,     \* upload bucket: object name -> stored report
    spc,        \* server: "idle" | "received" | "responded"
    req,        \* the request in flight: [method, body, fault]
    resp,       \* what the handler returned for it: [status, failed]
    before,     \* history: the bucket as it was when the handler started
    calls,      \* history: the calls the handler made on the request, in order
    logged,     \* the lines the handler wrote to the log for the request
    vreport,    \* validate under test: the report handed to it
    verdict,    \* validate under test: "pending" or the error it returned
    goos,       \* uploader: runtime.GOOS of the build
    goarch,     \* uploader: runtime.GOARCH of the build
    fstate,     \* local counter files: file -> "absent" | "active" | "ready" | "gone"
    seen,       \* UploadCache: the files already turned into a report
    pending,    \* reports built and kept locally until their upload is accepted
    stored,     \* the reports the server has accepted
    upc,        \* Run: "idle" | "uploading" | "finished"
    ready,      \* Run: the ready list of this pass
    idx,        \* Run: position of the loop in ready
    runErr,     \* Run: whether this pass logged an error of reports
    attempts,   \* history: the uploads of this pass, [report, outcome]
    passes,     \* history: the number of passes started
    trace,      \* history: file -> outcomes of the uploads of reports holding it
    built,      \* history: file -> number of reports built from it
    steps,      \* history: what Run did in this pass, in order
    centry,     \* child process: its entry point, "start.panic" | "start.exit"
    supported,  \* child process: whether the runtime has a crash output
    cpc,        \* child process: where it is
    installed,  \* child process: whether the crash monitor is registered
    gstack,     \* child process: the goroutine's call stack, oldest frame first
    incs,       \* history: the counter names the crash monitor incremented
    tfile,      \* TELEMETRY_FILE: <<>> while absent, else <<its content>>
    hpc,        \* concurrent uploads: handler -> where it is in handleUpload
    hreq,       \* concurrent uploads: handler -> the report posted to it
    hbuf,       \* concurrent uploads: handler -> its writer, [name, data]
    hresp,      \* concurrent uploads: handler -> what it returned
    events,     \* history: the NewWriter and Close calls, [h, call], in order
    seenlogwriters, \* upload package: the writers SetLogOutput has seen
    logger,     \* upload package: the logger's output, the writers it writes to
    dirs,       \* file system: debug directory name -> "missing" | "file" | "dir"
    logFiles,   \* file system: the debug directories holding this process's log
    sinks,      \* writer -> the lines written to it
    nlines,     \* history: the number of lines logged so far
    passed,     \* history: writer -> nlines when it was first passed, or -1
    lcall       \* history: the last LogIfDebug call, [dirname, ret, before]

serverVars == <<bucket, spc, req, resp, before, calls, logged>>
valVars == <<vreport, verdict>>
upVars == <<goos, goarch, fstate, seen, pending, stored, upc, ready, idx, runErr,
            attempts, passes, trace, built, steps>>
crashVars == <<centry, supported, cpc, installed, gstack, incs, tfile>>
concVars == <<hpc, hreq, hbuf, hresp, events>>
logVars == <<seenlogwriters, logger, dirs, logFiles, sinks, nlines, passed, lcall>>
vars == <<bucket, spc, req, resp, before, calls, logged, vreport, verdict, goos, goarch, fstate,
          seen, pending, stored, upc, ready, idx, runErr, attempts, passes, trace,
          built, steps, centry, supported, cpc, installed, gstack, incs, tfile,
          hpc, hreq, hbuf, hresp, events, seenlogwriters, logger, dirs, logFiles,
          sinks, nlines, passed, lcall>>

----------------------------------------------------------------------------
(* Bounds of the model.                                                    *)

\* X ranges over 0..MaxX
MaxX == 2
\* validate is exercised on Programs lists of up to MaxPrograms entries
MaxPrograms == 2
\* local counter files are 1..MaxFiles
MaxFiles == 3
\* at most MaxPasses upload passes are started
MaxPasses == 2
\* the goroutine of the child process makes calls up to MaxDepth deep
MaxDepth == 3
\* the texts of the errors of a malformed payload are up to MaxErrLen long
MaxErrLen == 82
\* up to MaxHandlers uploads are served at the same time
MaxHandlers == 2
\* SetLogOutput registers up to MaxWriters writers
MaxWriters == 3
\* up to MaxLines lines are logged
MaxLines == 2

----------------------------------------------------------------------------
(* Text helpers.                                                           *)

Digits == <<"0", "1", "2", "3", "4", "5", "6", "7", "8", "9">>

isDigit(c) == \E i \in 1..10 : Digits[i] = c

\* the value of a digit character
DigitVal(c) == (CHOOSE i \in 1..10 : Digits[i] = c) - 1

\* the rest of s from position i on (1-based), s[i:] in Go with i-1
Rest(s, i) == IF i > Len(s) THEN <<>> ELSE SubSeq(s, i, Len(s))

RECURSIVE atoi(_)
\* the number written by a sequence of digits
atoi(s) == IF s = <<>> THEN 0
           ELSE 10 * atoi(SubSeq(s, 1, Len(s) - 1)) + DigitVal(s[Len(s)])

RECURSIVE itoa(_)
\* the decimal digits of a natural number
itoa(n) == IF n < 10 THEN <<Digits[n + 1]>>
           ELSE itoa(n \div 10) \o <<Digits[(n % 10) + 1]>>

\* fmt's %g of a float64 holding a whole number below 10^6: its decimal
\* digits (from 10^6 on %g switches to the exponent form)
FmtG(x) == itoa(x)

\* strings.Cut(s, "\n") first result: the text before the first newline,
\* or all of s when it has none
CutPrefix(s) ==
    IF \E i \in 1..Len(s) : s[i] = "\n"
    THEN LET i == CHOOSE j \in 1..Len(s) :
                     s[j] = "\n" /\ \A k \in 1..(j - 1) : s[k] # "\n"
         IN SubSeq(s, 1, i - 1)
    ELSE s

\* the characters of the names and messages of this model; a name of one
\* character is its own text
Text(s) ==
    CASE s = "go" -> <<"g", "o">>
      [] s = "gopls" -> <<"g", "o", "p", "l", "s">>
      [] s = "vet" -> <<"v", "e", "t">>
      [] s = "go1.22" -> <<"g", "o", "1", ".", "2", "2">>
      [] s = "go1.0" -> <<"g", "o", "1", ".", "0">>
      [] s = "v0.14" -> <<"v", "0", ".", "1", "4">>
      [] s = "linux" -> <<"l", "i", "n", "u", "x">>
      [] s = "plan9" -> <<"p", "l", "a", "n", "9">>
      [] s = "amd64" -> <<"a", "m", "d", "6", "4">>
      [] s = "z80" -> <<"z", "8", "0">>
      [] s = "invalid week " -> <<"i", "n", "v", "a", "l", "i", "d", " ",
                                  "w", "e",
                                  "e", "k",
                                  " ">>
      [] s = "invalid config " -> <<"i", "n", "v", "a", "l", "i", "d", " ",
                                    "c",
                                    "o",
                                    "n",
                                    "f",
                                    "i",
                                    "g",
                                    " ">>
      [] s = "invalid X " -> <<"i", "n", "v", "a", "l", "i", "d", " ", "X",
                               " ">>
      [] s = "unknown program build " -> <<"u", "n", "k", "n", "o", "w", "n",
                                           " ",
                                           "p",
                                           "r",
                                           "o",
                                           "g",
                                           "r",
                                           "a",
                                           "m",
                                           " ",
                                           "b",
                                           "u",
                                           "i",
                                           "l",
                                           "d",
                                           " ">>
      [] s = "unknown counter " -> <<"u", "n", "k", "n", "o", "w", "n", " ",
                                     "c",
                                     "o",
                                     "u",
                                     "n",
                                     "t",
                                     "e",
                                     "r",
                                     " ">>
      [] s = "unknown stack " -> <<"u", "n", "k", "n", "o", "w", "n", " ",
                                   "s", "t",
                                   "a", "c",
                                   "k", " ">>
      [] s = "invalid JSON payload" -> <<"i", "n", "v", "a", "l", "i", "d",
                                         " ",
                                         "J",
                                         "S",
                                         "O",
                                         "N",
                                         " ",
                                         "p",
                                         "a",
                                         "y",
                                         "l",
                                         "o",
                                         "a",
                                         "d">>
      [] s = "invalid report" -> <<"i", "n", "v", "a", "l", "i", "d", " ",
                                   "r", "e",
                                   "p", "o",
                                   "r", "t">>
      [] OTHER -> <<s>>

\* %q of a text with nothing to escape: the text between double quotes
Quote(t) == <<"\"">> \o t \o <<"\"">>

\* a text of n characters that differ from their neighbours
ErrText(n) == [i \in 1..n |-> Digits[(i % 10) + 1]]

----------------------------------------------------------------------------
(* time.Parse("2006-01-02", week)                                          *)

isLeap(year) == year % 4 = 0 /\ (year % 100 # 0 \/ year % 400 = 0)

daysIn(month, year) ==
    IF month = 2 THEN (IF isLeap(year) THEN 29 ELSE 28)
    ELSE IF month \in {4, 6, 9, 11} THEN 30 ELSE 31

\* TRUE iff time.Parse returns no error: four digits, '-', two digits, '-',
\* two digits, nothing after, month in 1..12, day in the month
ParseWeekOK(w) ==
    /\ Len(w) = 10
    /\ \A i \in {1, 2, 3, 4, 6, 7, 9, 10} : isDigit(w[i])
    /\ w[5] = "-"
    /\ w[8] = "-"
    /\ LET year == atoi(SubSeq(w, 1, 4))
           month == atoi(SubSeq(w, 6, 7))
           day == atoi(SubSeq(w, 9, 10))
       IN /\ month >= 1
          /\ month <= 12
          /\ day >= 1
          /\ day <= daysIn(month, year)

----------------------------------------------------------------------------
(* semver.IsValid(config)                                                  *)

\* the letters that occur in the texts of this model (the code: A-Z, a-z)
Letters == {"a", "b", "c", "f", "g", "r", "s", "t", "v", "x"}

isIdentChar(c) == isDigit(c) \/ c = "-" \/ c \in Letters

\* the length of the leading run of digits of v
RECURSIVE digitRun(_)
digitRun(v) == IF v = <<>> \/ ~isDigit(v[1]) THEN 0
               ELSE 1 + digitRun(Tail(v))

\* parseInt: [ok, rest]; a number is a run of digits with no leading zero
parseInt(v) ==
    LET i == digitRun(v)
    IN IF i = 0 THEN [ok |-> FALSE, rest |-> v]
       ELSE IF v[1] = "0" /\ i # 1 THEN [ok |-> FALSE, rest |-> v]
       ELSE [ok |-> TRUE, rest |-> Rest(v, i + 1)]

isBadNum(v) == digitRun(v) = Len(v) /\ Len(v) > 1 /\ v[1] = "0"

\* the dot-separated identifiers of v are non-empty, made of identifier
\* characters, and (when numeric is TRUE) no numeric one has a leading zero
RECURSIVE identsOK(_, _, _)
identsOK(v, cur, numeric) ==
    IF v = <<>> THEN cur # <<>> /\ (numeric => ~isBadNum(cur))
    ELSE IF v[1] = "." THEN /\ cur # <<>>
                            /\ (numeric => ~isBadNum(cur))
                            /\ identsOK(Tail(v), <<>>, numeric)
    ELSE isIdentChar(v[1]) /\ identsOK(Tail(v), Append(cur, v[1]), numeric)

\* position of the first '+' of v, or Len(v)+1
plusAt(v) == IF \E i \in 1..Len(v) : v[i] = "+"
             THEN CHOOSE i \in 1..Len(v) :
                      v[i] = "+" /\ \A k \in 1..(i - 1) : v[k] # "+"
             ELSE Len(v) + 1

\* parsePrerelease: v starts with '-'; the identifiers run to the first '+'
parsePrerelease(v) ==
    LET i == plusAt(v)
    IN [ok |-> identsOK(SubSeq(v, 2, i - 1), <<>>, TRUE), rest |-> Rest(v, i)]

\* parseBuild: v starts with '+'; the identifiers run to the end
parseBuild(v) == [ok |-> identsOK(Tail(v), <<>>, FALSE), rest |-> <<>>]

\* what follows the patch number: optional prerelease, optional build
tailOK(v) ==
    LET a == IF v # <<>> /\ v[1] = "-" THEN parsePrerelease(v)
             ELSE [ok |-> TRUE, rest |-> v]
        b == IF a.ok /\ a.rest # <<>> /\ a.rest[1] = "+" THEN parseBuild(a.rest)
             ELSE a
    IN a.ok /\ b.ok /\ b.rest = <<>>

\* semver.IsValid: vMAJOR[.MINOR[.PATCH[-PRERELEASE][+BUILD]]]
semverIsValid(v) ==
    /\ v # <<>>
    /\ v[1] = "v"
    /\ LET major == parseInt(Tail(v))
       IN /\ major.ok
          /\ \/ major.rest = <<>>
             \/ /\ major.rest[1] = "."
                /\ LET minor == parseInt(Tail(major.rest))
                   IN /\ minor.ok
                      /\ \/ minor.rest = <<>>
                         \/ /\ minor.rest[1] = "."
                            /\ LET patch == parseInt(Tail(minor.rest))
                               IN patch.ok /\ tailOK(patch.rest)

----------------------------------------------------------------------------
(* The upload configuration and its lookups.                               *)

\* the server's upload config: allowed platforms and Go versions, and per
\* program its versions, counters and stack counters
ucfg ==
    [GOOS |-> {"linux"},
     GOARCH |-> {"amd64"},
     GoVersion |-> {"go1.22"},
     Programs |->
        [p \in {"go", "gopls"} |->
            IF p = "go"
            THEN [Versions |-> {"go1.22"}, Counters |-> {"a"}, Stacks |-> {<<"s">>}]
            ELSE [Versions |-> {"v0.14"}, Counters |-> {"b"}, Stacks |-> {}]]]

HasGOARCH(cfg, s) == s \in cfg.GOARCH
HasGOOS(cfg, s) == s \in cfg.GOOS
HasGoVersion(cfg, s) == s \in cfg.GoVersion
HasProgram(cfg, s) == s \in DOMAIN cfg.Programs
HasVersion(cfg, program, version) ==
    program \in DOMAIN cfg.Programs /\ version \in cfg.Programs[program].Versions
HasCounter(cfg, program, counter) ==
    program \in DOMAIN cfg.Programs /\ counter \in cfg.Programs[program].Counters
HasStack(cfg, program, stack) ==
    program \in DOMAIN cfg.Programs /\ stack \in cfg.Programs[program].Stacks

----------------------------------------------------------------------------
(* validate                                                                *)

\* the build tuple of p is not wholly in the allow-list
unknownBuild(p, cfg) ==
    \/ ~HasGOARCH(cfg, p.GOARCH)
    \/ ~HasGOOS(cfg, p.GOOS)
    \/ ~HasGoVersion(cfg, p.GoVersion)
    \/ ~HasProgram(cfg, p.Program)
    \/ ~HasVersion(cfg, p.Program, p.Version)

\* the stack key is judged by the whole key instead of its first line
unknownStackMut(p, s, cfg) == ~HasStack(cfg, p.Program, s)

\* the stack key s of p is judged by its first line
unknownStack(p, s, cfg) == ~HasStack(cfg, p.Program, CutPrefix(s))

\* a ProgramReport without counters is rejected
validateProgramMutNeedsCounters(p, cfg) ==
    IF unknownBuild(p, cfg) THEN "unknown program build"
    ELSE IF DOMAIN p.Counters = {} \/ \E c \in DOMAIN p.Counters : ~HasCounter(cfg, p.Program, c)
         THEN "unknown counter"
    ELSE IF \E s \in DOMAIN p.Stacks : unknownStack(p, s, cfg)
         THEN "unknown stack"
    ELSE "nil"

\* one iteration of validate's loop over r.Programs: the error for p
validateProgram(p, cfg) ==
    IF unknownBuild(p, cfg) THEN "unknown program build"
    ELSE IF \E c \in DOMAIN p.Counters : ~HasCounter(cfg, p.Program, c)
         THEN "unknown counter"
    ELSE IF \E s \in DOMAIN p.Stacks : unknownStack(p, s, cfg)
         THEN "unknown stack"
    ELSE "nil"

\* only the first ProgramReport is looked at
validateProgramsMut(ps, cfg) ==
    IF ps = <<>> THEN "nil" ELSE validateProgram(ps[1], cfg)

RECURSIVE validatePrograms(_, _)
\* validate's loop: the first error over r.Programs, in order
validatePrograms(ps, cfg) ==
    IF ps = <<>> THEN "nil"
    ELSE LET e == validateProgram(ps[1], cfg)
         IN IF e # "nil" THEN e ELSE validatePrograms(Tail(ps), cfg)

\* the X check is missing
validateMutNoX(r, cfg) ==
    IF ~ParseWeekOK(r.Week) THEN "invalid week"
    ELSE IF ~semverIsValid(r.Config) THEN "invalid config"
    ELSE validatePrograms(r.Programs, cfg)

\* validate: "nil" or the kind of the error returned
validate(r, cfg) ==
    IF ~ParseWeekOK(r.Week) THEN "invalid week"
    ELSE IF ~semverIsValid(r.Config) THEN "invalid config"
    ELSE IF r.X = 0 THEN "invalid X"
    ELSE validatePrograms(r.Programs, cfg)

RECURSIVE firstBad(_, _)
\* the ProgramReport at which validate's loop returns
firstBad(ps, cfg) ==
    IF validateProgram(ps[1], cfg) # "nil" THEN ps[1] ELSE firstBad(Tail(ps), cfg)

\* err.Error() of the error validate returns, as fmt.Errorf forms it (where
\* several keys of a map are unknown, Go names any one of them)
errorText(r, cfg) ==
    LET e == validate(r, cfg)
    IN CASE e = "invalid week" -> Text("invalid week ") \o r.Week
         [] e = "invalid config" -> Text("invalid config ") \o r.Config
         [] e = "invalid X" -> Text("invalid X ") \o FmtG(r.X)
         [] e = "unknown program build" ->
                LET p == firstBad(r.Programs, cfg)
                IN Text("unknown program build ") \o Text(p.Program) \o <<"@">>
                   \o Quote(Text(p.Version)) \o <<" ">> \o Quote(Text(p.GoVersion))
                   \o <<" ">> \o Text(p.GOOS) \o <<"/">> \o Text(p.GOARCH)
         [] e = "unknown counter" ->
                LET p == firstBad(r.Programs, cfg)
                    c == CHOOSE k \in DOMAIN p.Counters : ~HasCounter(cfg, p.Program, k)
                IN Text("unknown counter ") \o Text(c)
         [] e = "unknown stack" ->
                LET p == firstBad(r.Programs, cfg)
                    k == CHOOSE x \in DOMAIN p.Stacks : unknownStack(p, x, cfg)
                IN Text("unknown stack ") \o k
         [] OTHER -> <<>>

----------------------------------------------------------------------------
(* Reports.                                                                *)

NoMap == <<>>

GoodGo ==
    [Program |-> "go", Version |-> "go1.22", GoVersion |-> "go1.22",
     GOOS |-> "linux", GOARCH |-> "amd64",
     Counters |-> [c \in {"a"} |-> 3],
     Stacks |-> [s \in {<<"s", "\n", "f">>} |-> 1]]

GoodGopls ==
    [Program |-> "gopls", Version |-> "v0.14", GoVersion |-> "go1.22",
     GOOS |-> "linux", GOARCH |-> "amd64",
     Counters |-> [c \in {"b"} |-> 1],
     Stacks |-> NoMap]

\* stack keys: configured first line with no, one or two frame lines; an
\* unconfigured first line; an empty first line; a configured name that is
\* only a prefix of the first line
StackKeys ==
    {<<"s">>, <<"s", "\n", "f">>, <<"s", "\n", "f", "\n", "g">>, <<"s", "\n", "g">>,
     <<"t", "\n", "f">>, <<"t">>, <<"\n", "s">>, <<"s", "f">>,
     <<"t", "\n", "s">>}

\* ProgramReports: the two configured ones, and GoodGo changed in one field
ProgramReports ==
    {GoodGo, GoodGopls}
    \cup {[GoodGo EXCEPT !.GOARCH = "z80"],
          [GoodGo EXCEPT !.GOOS = "plan9"],
          [GoodGo EXCEPT !.GoVersion = "go1.0"],
          [GoodGo EXCEPT !.Program = "vet"],
          [GoodGo EXCEPT !.Version = "v0.14"],
          [GoodGo EXCEPT !.Counters = [c \in {"a", "b"} |-> 1]],
          [GoodGo EXCEPT !.Counters = NoMap],
          [GoodGopls EXCEPT !.Stacks = [s \in {<<"s">>} |-> 1]]}
    \cup {[GoodGo EXCEPT !.Stacks = [s \in {k} |-> 1]] : k \in StackKeys}
    \cup {[GoodGo EXCEPT !.Stacks = [s \in {<<"s", "\n", "f">>, <<"t", "\n", "f">>} |-> 1]]}

\* all sequences over S of length at most n
RECURSIVE SeqsUpTo(_, _)
SeqsUpTo(S, n) ==
    IF n = 0 THEN {<<>>}
    ELSE LET shorter == SeqsUpTo(S, n - 1)
         IN shorter \cup {Append(q, x) : q \in shorter, x \in S}

Weeks ==
    {<<"2", "0", "2", "4", "-", "0", "1", "-", "0", "8">>,
     <<"2", "0", "2", "4", "-", "0", "2", "-", "2", "9">>,
     <<"2", "0", "2", "3", "-", "0", "2", "-", "2", "9">>,
     <<"2", "0", "2", "4", "-", "1", "3", "-", "0", "1">>,
     <<"2", "0", "2", "4", "-", "1", "-", "8">>,
     <<"2", "0", "2", "4", "/", "0", "1", "/", "0", "8">>,
     <<"2", "0", "2", "4", "-", "0", "1", "-", "0", "8", "x">>,
     <<>>}

Configs ==
    {<<"v", "1", ".", "2", ".", "3">>,
     <<"v", "1">>,
     <<"v", "1", ".", "2", ".", "3", "-", "r", "c", ".", "1", "+", "b">>,
     <<"1", ".", "2", ".", "3">>,
     <<"v", "0", "1", ".", "2">>,
     <<"v", "1", ".", "2", ".", "3", "-", "0", "1">>,
     <<"v", "1", ".", "2", ".">>,
     <<"c">>,
     <<>>}

\* a well-formed and an ill-formed Week and Config, to go with long Programs
HeadWeeks ==
    {<<"2", "0", "2", "4", "-", "0", "1", "-", "0", "8">>,
     <<"2", "0", "2", "3", "-", "0", "2", "-", "2", "9">>}

HeadConfigs == {<<"v", "1", ".", "2", ".", "3">>, <<"1", ".", "2", ".", "3">>}

\* the reports validate is exercised on: every Week and Config with short
\* Programs, and the head values with Programs of every length
ValReports ==
    [Week : Weeks, Config : Configs, X : 0..MaxX,
     Programs : SeqsUpTo(ProgramReports, 1)]
    \cup [Week : HeadWeeks, Config : HeadConfigs, X : 0..MaxX,
          Programs : SeqsUpTo(ProgramReports, MaxPrograms)]

----------------------------------------------------------------------------
(* The client upload pass: Uploader.Run and what it calls.                 *)

Files == 1..MaxFiles

\* the aggregation week a counter file belongs to (encoded in its name)
Window(f) == ((f - 1) % 2) + 1

Min(S) == CHOOSE x \in S : \A y \in S : x <= y

\* a set of reports with disjoint files as a list, by smallest file
RECURSIVE OrderReports(_)
OrderReports(S) ==
    IF S = {} THEN <<>>
    ELSE LET r == CHOOSE x \in S : \A y \in S : Min(x.files) <= Min(y.files)
         IN <<r>> \o OrderReports(S \ {r})

\* the platforms Run is built for
Platforms ==
    {<<"linux", "amd64">>, <<"linux", "386">>, <<"openbsd", "amd64">>,
     <<"solaris", "amd64">>, <<"android", "arm64">>, <<"js", "wasm">>,
     <<"wasip1", "wasm">>}

\* the deny list without the architecture
DisabledOnPlatformMutNo386(os, arch) ==
    \/ os = "openbsd"
    \/ os = "solaris"
    \/ os = "android"
    \/ os = "js"
    \/ os = "wasip1"

\* disabledOnPlatform
DisabledOnPlatform(os, arch) ==
    \/ os = "openbsd"
    \/ os = "solaris"
    \/ os = "android"
    \/ os = "js"
    \/ os = "wasip1"
    \/ arch = "386"

\* the cache is not consulted
findWorkMutNoCache(fs, cache) ==
    [ready |-> {f \in Files : fs[f] = "ready"},
     active |-> {f \in Files : fs[f] = "active"}]

\* u.findWork(): the counter files of a concluded window that are present
\* and not recorded in the cache, and those still in use
findWork(fs, cache) ==
    [ready |-> {f \in Files : fs[f] = "ready" /\ f \notin cache},
     active |-> {f \in Files : fs[f] = "active"}]

\* the reports built from a set of counter files: one per week
buildReports(S) ==
    {[week |-> w, files |-> {f \in S : Window(f) = w}] : w \in {Window(f) : f \in S}}

\* u.reports(&todo) when the files of bad cannot be read: the reports kept
\* from earlier passes followed by those built now, the error, and the
\* cache and the kept reports afterwards
reports(todo, bad, cache, kept) ==
    LET new == buildReports(todo.ready \ bad)
    IN [ready |-> OrderReports(kept) \o OrderReports(new),
        err |-> bad # {},
        seen |-> cache \cup (todo.ready \ bad),
        pending |-> kept \cup new,
        used |-> todo.ready \ bad]

\* the outcomes of one upload: accepted and answered 200; failed before the
\* server stored it; stored by the server but the answer never arrived
Outcomes == {"ok", "fail", "lost"}

\* the source files are removed whatever the outcome
uploadReportMutAlwaysRemove(rep, o, fs, cache, kept, srv) ==
    [fstate |-> [f \in Files |-> IF f \in rep.files THEN "gone" ELSE fs[f]],
     seen |-> cache \ rep.files,
     pending |-> kept \ {rep},
     stored |-> IF o \in {"ok", "lost"} THEN srv \cup {rep} ELSE srv]

\* u.uploadReport(rep) with outcome o: on acceptance the source files are
\* removed with their cache entries and the report is no longer kept; on
\* failure nothing local changes
uploadReport(rep, o, fs, cache, kept, srv) ==
    IF o = "ok"
    THEN [fstate |-> [f \in Files |-> IF f \in rep.files THEN "gone" ELSE fs[f]],
          seen |-> cache \ rep.files,
          pending |-> kept \ {rep},
          stored |-> srv \cup {rep}]
    ELSE [fstate |-> fs,
          seen |-> cache,
          pending |-> kept,
          stored |-> IF o = "lost" THEN srv \cup {rep} ELSE srv]

\* Run returns when reports returned an error
afterReportsMutAbort(err) ==
    [log |-> err, upc |-> IF err THEN "finished" ELSE "uploading"]

\* Run after reports returned: if err != nil it logs the error, and in
\* either case it goes on to the loop over ready
afterReports(err) == [log |-> err, upc |-> "uploading"]

\* the loop stops at the first upload that is not accepted
loopDoneMutAbort(rdy, i, att) ==
    i > Len(rdy) \/ (att # <<>> /\ att[Len(att)].outcome # "ok")

\* the loop of Run is over: for _, f := range ready
loopDone(rdy, i, att) == i > Len(rdy)

NoFileMap == [f \in Files |-> <<>>]

\* no uploader runs: the state of the uploader's variables outside SpecUpload
UploaderAtRest ==
    /\ goos = "linux"
    /\ goarch = "amd64"
    /\ fstate = [f \in Files |-> "absent"]
    /\ seen = {}
    /\ pending = {}
    /\ stored = {}
    /\ upc = "idle"
    /\ ready = <<>>
    /\ idx = 1
    /\ runErr = FALSE
    /\ attempts = <<>>
    /\ passes = 0
    /\ trace = NoFileMap
    /\ built = [f \in Files |-> 0]
    /\ steps = <<>>

----------------------------------------------------------------------------
(* The crash monitor and the child process of its tests.                   *)

CrashPkg == "golang.org/x/telemetry/crashmonitor"

\* a stack frame: the function, and the line in it (counted from its first
\* line) where it stands; 0 for the runtime's frames, whose lines the tests
\* do not control
Frame(pkg, fn, line) == [pkg |-> pkg, fn |-> fn, line |-> line]

\* the functions the goroutine may call, and the lines it may stand on
Funcs == {"child", "grandchild"}
Lines == {1, 2}

\* the goroutine started by TestMain in the start.panic mode
GoroutineBase == <<Frame("runtime", "goexit", 0), Frame(CrashPkg, "TestMain.func2", 1)>>

RECURSIVE Reverse(_)
Reverse(q) == IF q = <<>> THEN <<>> ELSE Append(Reverse(Tail(q)), q[1])

\* the counter name for a crash with the given stack: the line crash/crash,
\* then the frames as symbol:line, the most recent call first
telemetryCounterName(stack) ==
    <<[sym |-> "crash/crash", colon |-> FALSE, pkg |-> "", line |-> 0]>>
    \o [i \in 1..Len(stack) |->
           LET fr == Reverse(stack)[i]
           IN [sym |-> fr.fn, colon |-> TRUE, pkg |-> fr.pkg, line |-> fr.line]]

\* the line number of every symbol:line is redacted
sanitizeMutRedactAll(name) ==
    [i \in 1..Len(name) |->
        IF name[i].colon THEN [name[i] EXCEPT !.line = -1] ELSE name[i]]

\* sanitize of the tests: the line number of every symbol:line whose package
\* is not the crash monitor's is redacted (written -1 here, "--" there)
sanitize(name) ==
    [i \in 1..Len(name) |->
        IF name[i].colon /\ name[i].pkg # CrashPkg
        THEN [name[i] EXCEPT !.line = -1]
        ELSE name[i]]

\* incrementCounter as the tests stub it: os.WriteFile(TELEMETRY_FILE, name)
incrementCounter(name, file) == <<name>>

\* the crash is reported twice
onCrashMutTwice(stack, isInstalled, done, file) ==
    IF isInstalled
    THEN [incs |-> done \o <<telemetryCounterName(stack), telemetryCounterName(stack)>>,
          tfile |-> incrementCounter(telemetryCounterName(stack), file)]
    ELSE [incs |-> done, tfile |-> file]

\* the crash monitor's handler, run when the runtime reports an unrecovered
\* panic with the given stack: one increment of the counter named after it
onCrash(stack, isInstalled, done, file) ==
    IF isInstalled
    THEN [incs |-> Append(done, telemetryCounterName(stack)),
          tfile |-> incrementCounter(telemetryCounterName(stack), file)]
    ELSE [incs |-> done, tfile |-> file]

\* no child process runs: the state of its variables outside SpecCrash
ChildAtRest ==
    /\ centry = "start.exit"
    /\ supported = TRUE
    /\ cpc = "entry"
    /\ installed = FALSE
    /\ gstack = <<>>
    /\ incs = <<>>
    /\ tfile = <<>>

----------------------------------------------------------------------------
(* The upload package's logger: SetLogOutput and LogIfDebug.               *)

\* the writers a client passes to SetLogOutput, and the nil writer
Writers == {"w1", "w2"}
Nil == "nil"

\* the directories LogIfDebug may look at: it.LocalDir/debug and a named one
DefaultDebug == "LocalDir/debug"
DNames == {DefaultDebug, "/tmp/d"}

\* the log file of this process in directory d, as a writer
LogFd(d) == IF d = DefaultDebug THEN "LocalDir/debug/log" ELSE "/tmp/d/log"

AllWriters == Writers \cup {LogFd(d) : d \in DNames}

\* io.Discard: an output that writes to no writer
Discard == <<>>

\* logger.SetOutput(w): the output is w alone
SetOutput(w) == <<w>>

\* io.MultiWriter(ws...): an output that writes to each of ws in turn
MultiWriter(ws) == ws

\* the place in the output out of the first writer whose Write fails, when
\* the writes to bad fail; Len(out) + 1 when none does
FirstFailure(out, bad) ==
    IF \E i \in 1..Len(out) : out[i] = bad
    THEN CHOOSE i \in 1..Len(out) :
             out[i] = bad /\ \A j \in 1..(i - 1) : out[j] # bad
    ELSE Len(out) + 1

\* logger.Printf of line l on output out while the writes to bad fail: the
\* writers of out are written l in turn up to the first whose Write fails,
\* which is noted as -l with that writer
Write(out, l, snk, bad) ==
    LET fb == FirstFailure(out, bad)
    IN [w \in AllWriters |->
           snk[w] \o [k \in 1..Cardinality({i \in 1..(fb - 1) : out[i] = w}) |-> l]
                  \o (IF w = bad /\ fb <= Len(out) THEN <<0 - l>> ELSE <<>>)]

\* the newest writer replaces the others
SetLogOutputMutReplace(logging, lg, seenw) ==
    IF logging = Nil THEN [logger |-> lg, seen |-> seenw]
    ELSE [logger |-> SetOutput(logging), seen |-> Append(seenw, logging)]

\* SetLogOutput(logging) with the logger's output lg and seenlogwriters
\* seenw: both afterwards
SetLogOutput(logging, lg, seenw) ==
    IF logging = Nil THEN [logger |-> lg, seen |-> seenw]
    ELSE LET seen2 == Append(seenw, logging)
         IN [logger |-> IF Len(seen2) > 1 THEN MultiWriter(seen2)
                        ELSE SetOutput(logging),
             seen |-> seen2]

\* the directory LogIfDebug looks at for the argument dirname
DirOf(dirname) == IF dirname # "" THEN dirname ELSE DefaultDebug

\* LogIfDebug(dirname) with the directories fsdirs and the log files
\* files, when ReadBuildInfo succeeds iff infoOK and os.Create iff createOK:
\* what it returns, and the log files, the logger's output and
\* seenlogwriters afterwards
LogIfDebug(dirname, fsdirs, files, infoOK, createOK, lg, seenw) ==
    LET dname == DirOf(dirname)
        asIs == [files |-> files, logger |-> lg, seen |-> seenw]
    IN IF fsdirs[dname] = "missing" THEN [ret |-> "stat error", state |-> asIs]
       ELSE IF fsdirs[dname] # "dir" THEN [ret |-> "nil", state |-> asIs]
       ELSE IF ~infoOK THEN [ret |-> "no build info", state |-> asIs]
       ELSE IF dname \in files THEN [ret |-> "nil", state |-> asIs]
       ELSE IF ~createOK THEN [ret |-> "create error", state |-> asIs]
       ELSE LET o == SetLogOutput(LogFd(dname), lg, seenw)
            IN [ret |-> "nil",
                state |-> [files |-> files \cup {dname}, logger |-> o.logger,
                           seen |-> o.seen]]

\* the last call of SetLogOutput or LogIfDebug: its argument, what it
\* returned, and the package and the log files before it
NoCall == [fn |-> "none", arg |-> "", ret |-> "none",
           before |-> [files |-> {}, logger |-> Discard, seen |-> <<>>]]

\* the package after init(), before any call
LoggerAtRest ==
    /\ seenlogwriters = <<>>
    /\ logger = Discard
    /\ dirs = [d \in DNames |-> "missing"]
    /\ logFiles = {}
    /\ sinks = [w \in AllWriters |-> <<>>]
    /\ nlines = 0
    /\ passed = [w \in AllWriters |-> -1]
    /\ lcall = NoCall

----------------------------------------------------------------------------
(* The upload endpoint: handleUpload and the upload bucket.                *)

Methods == {"POST", "GET", "PUT"}

\* where a write to the bucket can fail: nowhere, in NewWriter, in Encode
\* (the write of the encoded report), in Close
Faults == {"none", "NewWriter", "Encode", "Close"}

\* the Programs lists of the reports sent to the endpoint
SentPrograms ==
    {<<>>, <<GoodGo>>, <<GoodGopls>>, <<GoodGo, GoodGopls>>,
     <<[GoodGo EXCEPT !.Counters = [c \in {"a", "b"} |-> 1]]>>,
     <<GoodGo, [GoodGopls EXCEPT !.GOARCH = "z80"]>>,
     <<[GoodGo EXCEPT !.Stacks = [s \in {<<"t", "\n", "f">>} |-> 1]]>>}

\* Weeks so long that the error naming them is about 80 characters
LongWeeks == {ErrText(n) : n \in 65..69}

\* the reports sent to the endpoint
SentReports ==
    [Week : HeadWeeks, Config : HeadConfigs, X : 0..MaxX, Programs : SentPrograms]
    \cup [Week : LongWeeks, Config : {<<"v", "1">>}, X : {1}, Programs : {<<>>}]

ZeroReport == [Week |-> <<>>, Config |-> <<>>, X |-> 0, Programs |-> <<>>]

\* request bodies: a JSON report; text that is not JSON, with the text of
\* the decoder's error for it; JSON whose fields have the wrong types
Bodies ==
    {[kind |-> "json", report |-> r, etext |-> <<>>] : r \in SentReports}
    \cup {[kind |-> "malformed", report |-> ZeroReport, etext |-> ErrText(n)] :
             n \in 1..MaxErrLen}
    \cup {[kind |-> "mistyped", report |-> ZeroReport, etext |-> ErrText(MaxErrLen)]}

\* json.NewDecoder(r.Body).Decode(&report): [err, report, text of the error]
Decode(body) ==
    IF body.kind = "json" THEN [err |-> FALSE, report |-> body.report, text |-> <<>>]
    ELSE [err |-> TRUE, report |-> ZeroReport, text |-> body.etext]

\* the rune U+2026, one character
Ellipsis == "..."

\* one character too many is kept: errs[:80] and the ellipsis
warnMutKeep80(msg, errs) ==
    Text(msg) \o <<":", " ">>
    \o (IF Len(errs) > 80 THEN Append(SubSeq(errs, 1, 80), Ellipsis) ELSE errs)

\* warn(msg, err): the line given to log.WarnContext
warn(msg, errs) ==
    Text(msg) \o <<":", " ">>
    \o (IF Len(errs) > 80 THEN Append(SubSeq(errs, 1, 79), Ellipsis) ELSE errs)

\* the name is formed of the Week alone
ObjectNameMutNoX(r) == r.Week \o <<".", "j", "s", "o", "n">>

\* fmt.Sprintf("%s/%g.json", report.Week, report.X)
ObjectName(r) == r.Week \o <<"/">> \o FmtG(r.X) \o <<".", "j", "s", "o", "n">>

\* the bucket after a writer for name was written data and closed without
\* error: the object holds data, every other object is as it was
PutObject(b, name, data) ==
    [n \in DOMAIN b \cup {name} |-> IF n = name THEN data ELSE b[n]]

\* the bucket after a write to name that failed at fault: writes are atomic
\* per object, so nothing of it is visible
FailedPut(b, name, fault) == b

StatusOK == 200
StatusBadRequest == 400
StatusMethodNotAllowed == 405

\* content.Status(w, code)
Status(code) == [status |-> code, failed |-> FALSE]
\* content.Error(err, code)
Error(code) == [status |-> code, failed |-> TRUE]
\* a plain error returned by the handler, which chose no status
PlainError == [status |-> 0, failed |-> TRUE]

\* the calls of the write of an accepted report that fails at fault; the
\* deferred Close runs once a writer was opened
writeCalls(fault) ==
    IF fault = "NewWriter" THEN <<"Decode", "validate", "NewWriter">>
    ELSE IF fault = "Encode" THEN <<"Decode", "validate", "NewWriter", "Encode", "Close">>
    ELSE <<"Decode", "validate", "NewWriter", "Encode", "Close", "Close">>

\* what the handler does with a body that does not decode
badJSON(d, b) ==
    [resp |-> Error(StatusBadRequest), bucket |-> b,
     calls |-> <<"Decode", "warn">>,
     logged |-> <<warn("invalid JSON payload", d.text)>>]

\* what the handler does with a report that validate rejects
badReport(d, b) ==
    [resp |-> Error(StatusBadRequest), bucket |-> b,
     calls |-> <<"Decode", "validate", "warn">>,
     logged |-> <<warn("invalid report", errorText(d.report, ucfg))>>]

\* what the handler does with an accepted report whose write fails
failedWrite(rq, d, b) ==
    [resp |-> PlainError,
     bucket |-> FailedPut(b, ObjectName(d.report), rq.fault),
     calls |-> writeCalls(rq.fault), logged |-> <<>>]

\* what the handler does with an accepted report whose write succeeds
stored200(d, b) ==
    [resp |-> Status(StatusOK),
     bucket |-> PutObject(b, ObjectName(d.report), d.report),
     calls |-> writeCalls("none"), logged |-> <<>>]

\* what the handler does with a request that is no POST
notPost(b) ==
    [resp |-> Status(StatusMethodNotAllowed), bucket |-> b,
     calls |-> <<>>, logged |-> <<>>]

\* the report is stored before it is validated
handleUploadMutStoreFirst(rq, b) ==
    IF rq.method = "POST"
    THEN LET d == Decode(rq.body)
         IN IF d.err THEN badJSON(d, b)
            ELSE IF validate(d.report, ucfg) # "nil"
                 THEN [badReport(d, b) EXCEPT
                          !.bucket = PutObject(b, ObjectName(d.report), d.report)]
            ELSE stored200(d, b)
    ELSE notPost(b)

\* the error of Close is dropped
handleUploadMutIgnoreClose(rq, b) ==
    IF rq.method = "POST"
    THEN LET d == Decode(rq.body)
         IN IF d.err THEN badJSON(d, b)
            ELSE IF validate(d.report, ucfg) # "nil" THEN badReport(d, b)
            ELSE IF rq.fault \in {"NewWriter", "Encode"} THEN failedWrite(rq, d, b)
            ELSE IF rq.fault = "Close"
                 THEN [failedWrite(rq, d, b) EXCEPT !.resp = Status(StatusOK)]
            ELSE stored200(d, b)
    ELSE notPost(b)

\* an object that exists is not overwritten: the report goes to a new name
handleUploadMutNoOverwrite(rq, b) ==
    IF rq.method = "POST"
    THEN LET d == Decode(rq.body)
         IN IF d.err THEN badJSON(d, b)
            ELSE IF validate(d.report, ucfg) # "nil" THEN badReport(d, b)
            ELSE IF rq.fault # "none" THEN failedWrite(rq, d, b)
            ELSE [stored200(d, b) EXCEPT
                     !.bucket = PutObject(b,
                         IF ObjectName(d.report) \in DOMAIN b
                         THEN ObjectName(d.report) \o <<"-", "1">>
                         ELSE ObjectName(d.report), d.report)]
    ELSE notPost(b)

\* the body is decoded and validated before the method is looked at
handleUploadMutDecodeFirst(rq, b) ==
    LET d == Decode(rq.body)
    IN IF d.err THEN badJSON(d, b)
       ELSE IF validate(d.report, ucfg) # "nil" THEN badReport(d, b)
       ELSE IF rq.method # "POST"
            THEN [notPost(b) EXCEPT !.calls = <<"Decode", "validate">>]
       ELSE IF rq.fault # "none" THEN failedWrite(rq, d, b)
       ELSE stored200(d, b)

\* handleUpload on request rq with the bucket holding b: what it returns,
\* the bucket it leaves, the calls it made and the lines it logged
handleUpload(rq, b) ==
    IF rq.method = "POST"
    THEN LET d == Decode(rq.body)
         IN IF d.err THEN badJSON(d, b)
            ELSE IF validate(d.report, ucfg) # "nil" THEN badReport(d, b)
            ELSE IF rq.fault # "none" THEN failedWrite(rq, d, b)
            ELSE stored200(d, b)
    ELSE notPost(b)

NoReq == [method |-> "", body |-> [kind |-> "none", report |-> ZeroReport,
                                   etext |-> <<>>],
          fault |-> "none"]
NoResp == [status |-> 0, failed |-> FALSE]

\* the goroutines serving uploads at the same time, one request each
Handlers == 1..MaxHandlers

\* the reports posted at the same time: one Week, every X, two Programs
ConcReports ==
    [Week : {<<"2", "0", "2", "4", "-", "0", "1", "-", "0", "8">>},
     Config : {<<"v", "1", ".", "2", ".", "3">>},
     X : 0..MaxX,
     Programs : {<<>>, <<GoodGo>>}]

NoWriter == [name |-> <<>>, data |-> ZeroReport]

\* a name not yet in the bucket is looked for
openWriterMutAvoidCollision(b, r) ==
    [name |-> IF ObjectName(r) \in DOMAIN b THEN ObjectName(r) \o <<"-", "1">>
              ELSE ObjectName(r),
     data |-> ZeroReport]

\* buckets.Upload.Object(name).NewWriter(ctx) for report r while the bucket
\* holds b: a writer for {Week}/{X}.json with nothing written
openWriter(b, r) == [name |-> ObjectName(r), data |-> ZeroReport]

\* no upload is being served
HandlersAtRest ==
    /\ hpc = [h \in Handlers |-> "idle"]
    /\ hreq = [h \in Handlers |-> ZeroReport]
    /\ hbuf = [h \in Handlers |-> NoWriter]
    /\ hresp = [h \in Handlers |-> NoResp]
    /\ events = <<>>

\* no request is in flight and the bucket is empty
ServerAtRest ==
    /\ bucket = <<>>
    /\ spc = "idle"
    /\ req = NoReq
    /\ resp = NoResp
    /\ before = <<>>
    /\ calls = <<>>
    /\ logged = <<>>

Init ==
    /\ ServerAtRest
    /\ vreport = ZeroReport
    /\ verdict = "pending"
    /\ UploaderAtRest
    /\ ChildAtRest
    /\ HandlersAtRest
    /\ LoggerAtRest

\* a request reaches the endpoint
Receive ==
    /\ spc = "idle"
    /\ \E m \in Methods, body \in Bodies, f \in Faults :
           req' = [method |-> m, body |-> body, fault |-> f]
    /\ spc' = "received"
    /\ UNCHANGED <<bucket, resp, before, calls, logged, valVars, upVars, crashVars,
                   concVars, logVars>>

\* the handler runs on it, from its first line to its return
Handle ==
    /\ spc = "received"
    /\ LET out == handleUpload(req, bucket)
       IN /\ bucket' = out.bucket
          /\ resp' = out.resp
          /\ calls' = out.calls
          /\ logged' = out.logged
    /\ before' = bucket
    /\ spc' = "responded"
    /\ UNCHANGED <<req, valVars, upVars, crashVars, concVars, logVars>>

\* the response is sent and the request is over
Respond ==
    /\ spc = "responded"
    /\ spc' = "idle"
    /\ req' = NoReq
    /\ resp' = NoResp
    /\ before' = <<>>
    /\ calls' = <<>>
    /\ logged' = <<>>
    /\ UNCHANGED <<bucket, valVars, upVars, crashVars, concVars, logVars>>

Next == Receive \/ Handle \/ Respond

Spec == Init /\ [][Next]_vars

----------------------------------------------------------------------------
(* Uploads served at the same time: each handler is a goroutine running    *)
(* handleUpload on a POST, and the goroutines interleave between the calls *)
(* they make on the bucket.                                                *)

InitConc ==
    /\ ServerAtRest
    /\ vreport = ZeroReport
    /\ verdict = "pending"
    /\ UploaderAtRest
    /\ ChildAtRest
    /\ HandlersAtRest
    /\ LoggerAtRest

\* a POST with a report as its body reaches handler h
ConcReceive(h) ==
    /\ hpc[h] = "idle"
    /\ \E r \in ConcReports : hreq' = [hreq EXCEPT ![h] = r]
    /\ hpc' = [hpc EXCEPT ![h] = "received"]
    /\ UNCHANGED <<hbuf, hresp, events, serverVars, valVars, upVars, crashVars,
                   logVars>>

\* Decode and validate: a rejected report is answered 400
ConcValidate(h) ==
    /\ hpc[h] = "received"
    /\ IF validate(hreq[h], ucfg) # "nil"
       THEN /\ hresp' = [hresp EXCEPT ![h] = Error(StatusBadRequest)]
            /\ hpc' = [hpc EXCEPT ![h] = "done"]
       ELSE /\ hpc' = [hpc EXCEPT ![h] = "validated"]
            /\ UNCHANGED hresp
    /\ UNCHANGED <<hreq, hbuf, events, serverVars, valVars, upVars, crashVars,
                   logVars>>

\* NewWriter: the writer is opened, or the call fails and the handler returns
ConcNewWriter(h) ==
    /\ hpc[h] = "validated"
    /\ \/ /\ hbuf' = [hbuf EXCEPT ![h] = openWriter(bucket, hreq[h])]
          /\ events' = Append(events, [h |-> h, call |-> "NewWriter"])
          /\ hpc' = [hpc EXCEPT ![h] = "open"]
          /\ UNCHANGED hresp
       \/ /\ hresp' = [hresp EXCEPT ![h] = PlainError]
          /\ hpc' = [hpc EXCEPT ![h] = "done"]
          /\ UNCHANGED <<hbuf, events>>
    /\ UNCHANGED <<hreq, serverVars, valVars, upVars, crashVars, logVars>>

\* Encode: the report is written to the writer, or the write fails, the
\* deferred Close runs and the handler returns
ConcEncode(h) ==
    /\ hpc[h] = "open"
    /\ \/ /\ hbuf' = [hbuf EXCEPT ![h].data = hreq[h]]
          /\ hpc' = [hpc EXCEPT ![h] = "encoded"]
          /\ UNCHANGED <<hresp, bucket>>
       \/ /\ hresp' = [hresp EXCEPT ![h] = PlainError]
          /\ hpc' = [hpc EXCEPT ![h] = "done"]
          /\ bucket' = FailedPut(bucket, hbuf[h].name, "Encode")
          /\ UNCHANGED hbuf
    /\ UNCHANGED <<hreq, events, spc, req, resp, before, calls, logged, valVars,
                   upVars, crashVars, logVars>>

\* Close: the object takes what was written, or the call fails and the
\* handler returns
ConcClose(h) ==
    /\ hpc[h] = "encoded"
    /\ \/ /\ bucket' = PutObject(bucket, hbuf[h].name, hbuf[h].data)
          /\ events' = Append(events, [h |-> h, call |-> "Close"])
          /\ hpc' = [hpc EXCEPT ![h] = "closed"]
          /\ UNCHANGED hresp
       \/ /\ bucket' = FailedPut(bucket, hbuf[h].name, "Close")
          /\ hresp' = [hresp EXCEPT ![h] = PlainError]
          /\ hpc' = [hpc EXCEPT ![h] = "done"]
          /\ UNCHANGED events
    /\ UNCHANGED <<hreq, hbuf, spc, req, resp, before, calls, logged, valVars,
                   upVars, crashVars, logVars>>

\* content.Status(w, 200)
ConcReturn(h) ==
    /\ hpc[h] = "closed"
    /\ hresp' = [hresp EXCEPT ![h] = Status(StatusOK)]
    /\ hpc' = [hpc EXCEPT ![h] = "done"]
    /\ UNCHANGED <<hreq, hbuf, events, serverVars, valVars, upVars, crashVars,
                   logVars>>

NextConc ==
    \E h \in Handlers :
        \/ ConcReceive(h)
        \/ ConcValidate(h)
        \/ ConcNewWriter(h)
        \/ ConcEncode(h)
        \/ ConcClose(h)
        \/ ConcReturn(h)

SpecConc == InitConc /\ [][NextConc]_vars

----------------------------------------------------------------------------
(* validate under test: a report is drawn, validate is applied to it.      *)

InitValidate ==
    /\ vreport \in ValReports
    /\ verdict = "pending"
    /\ ServerAtRest
    /\ UploaderAtRest
    /\ ChildAtRest
    /\ HandlersAtRest
    /\ LoggerAtRest

RunValidate ==
    /\ verdict = "pending"
    /\ verdict' = validate(vreport, ucfg)
    /\ UNCHANGED <<vreport, serverVars, upVars, crashVars, concVars, logVars>>

NextValidate == RunValidate

SpecValidate == InitValidate /\ [][NextValidate]_vars

----------------------------------------------------------------------------
(* The upload pass as a state machine: counter files appear and their      *)
(* windows end, Run is started, uploads its ready list one report at a     *)
(* time, and returns; the process may be restarted in the middle of a pass.*)

InitUpload ==
    /\ \E pf \in Platforms : goos = pf[1] /\ goarch = pf[2]
    /\ fstate = [f \in Files |-> "absent"]
    /\ seen = {}
    /\ pending = {}
    /\ stored = {}
    /\ upc = "idle"
    /\ ready = <<>>
    /\ idx = 1
    /\ runErr = FALSE
    /\ attempts = <<>>
    /\ passes = 0
    /\ trace = NoFileMap
    /\ built = [f \in Files |-> 0]
    /\ steps = <<>>
    /\ ServerAtRest
    /\ vreport = ZeroReport
    /\ verdict = "pending"
    /\ ChildAtRest
    /\ HandlersAtRest
    /\ LoggerAtRest

\* an instrumented program starts a counter file
CounterFileCreated ==
    /\ \E f \in Files :
           /\ fstate[f] = "absent"
           /\ fstate' = [fstate EXCEPT ![f] = "active"]
    /\ UNCHANGED <<goos, goarch, seen, pending, stored, upc, ready, idx, runErr,
                   attempts, passes, trace, built, steps, serverVars, valVars, crashVars,
                   concVars, logVars>>

\* the aggregation window of a counter file is over
WindowEnds ==
    /\ \E f \in Files :
           /\ fstate[f] = "active"
           /\ fstate' = [fstate EXCEPT ![f] = "ready"]
    /\ UNCHANGED <<goos, goarch, seen, pending, stored, upc, ready, idx, runErr,
                   attempts, passes, trace, built, steps, serverVars, valVars, crashVars,
                   concVars, logVars>>

\* Run up to its loop: the platform check, findWork and reports
RunBegin ==
    /\ upc \in {"idle", "finished"}
    /\ passes < MaxPasses
    /\ passes' = passes + 1
    /\ attempts' = <<>>
    /\ idx' = 1
    /\ IF DisabledOnPlatform(goos, goarch)
       THEN /\ upc' = "finished"
            /\ ready' = <<>>
            /\ runErr' = FALSE
            /\ steps' = <<>>
            /\ UNCHANGED <<seen, pending, built>>
       ELSE LET todo == findWork(fstate, seen)
            IN \E bad \in {{}} \cup {{f} : f \in todo.ready} :
                   LET out == reports(todo, bad, seen, pending)
                   IN /\ ready' = out.ready
                      /\ runErr' = out.err
                      /\ seen' = out.seen
                      /\ pending' = out.pending
                      /\ built' = [f \in Files |->
                                      IF f \in out.used THEN built[f] + 1
                                      ELSE built[f]]
                      /\ upc' = afterReports(out.err).upc
                      /\ steps' = <<"findWork", "reports">>
                                   \o (IF afterReports(out.err).log THEN <<"log">>
                                       ELSE <<>>)
    /\ UNCHANGED <<goos, goarch, fstate, stored, trace, serverVars, valVars, crashVars,
                   concVars, logVars>>

\* one iteration of Run's loop: u.uploadReport(f)
UploadNext ==
    /\ upc = "uploading"
    /\ ~loopDone(ready, idx, attempts)
    /\ \E o \in Outcomes :
           LET out == uploadReport(ready[idx], o, fstate, seen, pending, stored)
           IN /\ fstate' = out.fstate
              /\ seen' = out.seen
              /\ pending' = out.pending
              /\ stored' = out.stored
              /\ attempts' = Append(attempts, [report |-> ready[idx], outcome |-> o])
              /\ trace' = [f \in Files |->
                              IF f \in ready[idx].files THEN Append(trace[f], o)
                              ELSE trace[f]]
    /\ idx' = idx + 1
    /\ steps' = Append(steps, "uploadReport")
    /\ UNCHANGED <<goos, goarch, upc, ready, runErr, passes, built, serverVars,
                   valVars, crashVars, concVars, logVars>>

\* Run returns
RunEnd ==
    /\ upc = "uploading"
    /\ loopDone(ready, idx, attempts)
    /\ upc' = "finished"
    /\ UNCHANGED <<goos, goarch, fstate, seen, pending, stored, ready, idx, runErr,
                   attempts, passes, trace, built, steps, serverVars, valVars,
                   crashVars, concVars, logVars>>

\* the process ends in the middle of a pass; what is on disk stays
Restart ==
    /\ upc = "uploading"
    /\ upc' = "idle"
    /\ ready' = <<>>
    /\ idx' = 1
    /\ runErr' = FALSE
    /\ attempts' = <<>>
    /\ steps' = <<>>
    /\ UNCHANGED <<goos, goarch, fstate, seen, pending, stored, passes, trace,
                   built, serverVars, valVars, crashVars, concVars, logVars>>

NextUpload ==
    \/ CounterFileCreated
    \/ WindowEnds
    \/ RunBegin
    \/ UploadNext
    \/ RunEnd
    \/ Restart

SpecUpload == InitUpload /\ [][NextUpload]_vars

----------------------------------------------------------------------------
(* The child process of TestStart: it calls Start, then either exits or    *)
(* starts a goroutine that calls its way to a panic.                       *)

InitCrash ==
    /\ centry \in {"start.panic", "start.exit"}
    /\ supported \in BOOLEAN
    /\ cpc = "entry"
    /\ installed = FALSE
    /\ gstack = <<>>
    /\ incs = <<>>
    /\ tfile = <<>>
    /\ UploaderAtRest
    /\ ServerAtRest
    /\ vreport = ZeroReport
    /\ verdict = "pending"
    /\ HandlersAtRest
    /\ LoggerAtRest

\* Start(): registers the monitor where the runtime supports it, else does
\* nothing
Start ==
    /\ cpc = "entry"
    /\ installed' = supported
    /\ cpc' = "started"
    /\ UNCHANGED <<centry, supported, gstack, incs, tfile, serverVars, valVars,
                   upVars, concVars, logVars>>

\* os.Exit(42) in the start.exit mode
Exit ==
    /\ cpc = "started"
    /\ centry = "start.exit"
    /\ cpc' = "exited"
    /\ UNCHANGED <<centry, supported, installed, gstack, incs, tfile, serverVars,
                   valVars, upVars, concVars, logVars>>

\* go func() { child() }() in the start.panic mode
Go ==
    /\ cpc = "started"
    /\ centry = "start.panic"
    /\ gstack' = GoroutineBase
    /\ cpc' = "running"
    /\ UNCHANGED <<centry, supported, installed, incs, tfile, serverVars, valVars,
                   upVars, concVars, logVars>>

\* the function on top calls fn from one of its lines
Call ==
    /\ cpc = "running"
    /\ Len(gstack) < Len(GoroutineBase) + MaxDepth
    /\ \E fn \in Funcs, l \in Lines :
           gstack' = Append([gstack EXCEPT ![Len(gstack)].line = l],
                            Frame(CrashPkg, fn, 1))
    /\ UNCHANGED <<centry, supported, cpc, installed, incs, tfile, serverVars,
                   valVars, upVars, concVars, logVars>>

\* the function on top panics on one of its lines and nothing recovers:
\* the runtime reports the crash and the process dies
Panic ==
    /\ cpc = "running"
    /\ Len(gstack) > Len(GoroutineBase)
    /\ \E l \in Lines :
           LET stack == Append([gstack EXCEPT ![Len(gstack)].line = l],
                               Frame("runtime", "gopanic", 0))
               out == onCrash(stack, installed, incs, tfile)
           IN /\ gstack' = stack
              /\ incs' = out.incs
              /\ tfile' = out.tfile
    /\ cpc' = "crashed"
    /\ UNCHANGED <<centry, supported, installed, serverVars, valVars, upVars,
                   concVars, logVars>>

NextCrash == Start \/ Exit \/ Go \/ Call \/ Panic

SpecCrash == InitCrash /\ [][NextCrash]_vars

----------------------------------------------------------------------------
(* The logger in use: a client calls SetLogOutput and LogIfDebug in any    *)
(* order, and lines are logged in between.                                 *)

InitLog ==
    /\ seenlogwriters = <<>>
    /\ logger = Discard
    /\ dirs \in [DNames -> {"missing", "file", "dir"}]
    /\ logFiles = {}
    /\ sinks = [w \in AllWriters |-> <<>>]
    /\ nlines = 0
    /\ passed = [w \in AllWriters |-> -1]
    /\ lcall = NoCall
    /\ ServerAtRest
    /\ vreport = ZeroReport
    /\ verdict = "pending"
    /\ UploaderAtRest
    /\ ChildAtRest
    /\ HandlersAtRest

\* the writers of seen2 that seen1 does not hold are passed for the first time
FirstPassed(seen1, seen2) ==
    [w \in AllWriters |->
        IF passed[w] = -1 /\ (\E i \in 1..Len(seen2) : seen2[i] = w)
        THEN nlines ELSE passed[w]]

\* a client calls SetLogOutput
SetLogOutputCall ==
    /\ Len(seenlogwriters) < MaxWriters
    /\ \E w \in Writers \cup {Nil} :
           LET out == SetLogOutput(w, logger, seenlogwriters)
           IN /\ logger' = out.logger
              /\ seenlogwriters' = out.seen
              /\ passed' = FirstPassed(seenlogwriters, out.seen)
              /\ lcall' = [fn |-> "SetLogOutput", arg |-> w, ret |-> "none",
                           before |-> [files |-> logFiles, logger |-> logger,
                                       seen |-> seenlogwriters]]
    /\ UNCHANGED <<dirs, logFiles, sinks, nlines, serverVars, valVars, upVars,
                   crashVars, concVars>>

\* a client calls LogIfDebug
LogIfDebugCall ==
    /\ Len(seenlogwriters) < MaxWriters
    /\ \E dirname \in {"", "/tmp/d"}, infoOK \in BOOLEAN, createOK \in BOOLEAN :
           LET out == LogIfDebug(dirname, dirs, logFiles, infoOK, createOK, logger,
                                 seenlogwriters)
           IN /\ logger' = out.state.logger
              /\ seenlogwriters' = out.state.seen
              /\ logFiles' = out.state.files
              /\ passed' = FirstPassed(seenlogwriters, out.state.seen)
              /\ lcall' = [fn |-> "LogIfDebug", arg |-> dirname, ret |-> out.ret,
                           before |-> [files |-> logFiles, logger |-> logger,
                                       seen |-> seenlogwriters]]
    /\ UNCHANGED <<dirs, sinks, nlines, serverVars, valVars, upVars, crashVars,
                   concVars>>

\* logger.Printf: a line is logged, while the writes to no writer or to one
\* writer fail
Printf ==
    /\ nlines < MaxLines
    /\ nlines' = nlines + 1
    /\ \E bad \in AllWriters \cup {Nil} :
           sinks' = Write(logger, nlines + 1, sinks, bad)
    /\ UNCHANGED <<seenlogwriters, logger, dirs, logFiles, passed, lcall, serverVars,
                   valVars, upVars, crashVars, concVars>>

NextLog == SetLogOutputCall \/ LogIfDebugCall \/ Printf

SpecLog == InitLog /\ [][NextLog]_vars

----------------------------------------------------------------------------
(* What the claims about validate speak of, stated on the config and the   *)
(* report directly.                                                        *)

\* the Weeks of the model that are calendar dates written YYYY-MM-DD
CalendarWeeks ==
    {<<"2", "0", "2", "4", "-", "0", "1", "-", "0", "8">>,
     <<"2", "0", "2", "4", "-", "0", "2", "-", "2", "9">>}

\* the Configs of the model that are semantic versions
SemverConfigs ==
    {<<"v", "1", ".", "2", ".", "3">>,
     <<"v", "1">>,
     <<"v", "1", ".", "2", ".", "3", "-", "r", "c", ".", "1", "+", "b">>}

HeaderOK(r) == r.Week \in CalendarWeeks /\ r.Config \in SemverConfigs /\ r.X # 0

\* p's build tuple is in the allow-list of the server's config
BuildAllowed(p) ==
    /\ p.GOARCH \in ucfg.GOARCH
    /\ p.GOOS \in ucfg.GOOS
    /\ p.GoVersion \in ucfg.GoVersion
    /\ p.Program \in DOMAIN ucfg.Programs
    /\ p.Version \in ucfg.Programs[p.Program].Versions

CountersConfigured(p) ==
    \A c \in DOMAIN p.Counters : c \in ucfg.Programs[p.Program].Counters

\* l is the first line of k: l holds no newline, k starts with l, and l is
\* all of k or is followed in k by a newline
IsFirstLine(l, k) ==
    /\ Len(l) <= Len(k)
    /\ \A i \in 1..Len(l) : l[i] = k[i] /\ l[i] # "\n"
    /\ (Len(l) = Len(k) \/ k[Len(l) + 1] = "\n")

\* every stack key of p has a first line that is a stack counter of p's program
StackLinesConfigured(p) ==
    \A k \in DOMAIN p.Stacks :
        \E l \in ucfg.Programs[p.Program].Stacks : IsFirstLine(l, k)

\* r with every stack key cut down to its first line (the frames dropped)
StripFrames(r) ==
    [r EXCEPT !.Programs =
        [i \in 1..Len(r.Programs) |->
            [r.Programs[i] EXCEPT !.Stacks =
                [l \in {CutPrefix(k) : k \in DOMAIN r.Programs[i].Stacks} |-> 1]]]]

validated == verdict # "pending"

\* C2: whenever some ProgramReport of the report, at any position, has a
\* build tuple outside the allow-list or a counter key that is not a
\* configured counter of its program, validate returns an error.
C2_AnyBadProgramRejects ==
    (validated /\ \E i \in 1..Len(vreport.Programs) :
                     \/ ~BuildAllowed(vreport.Programs[i])
                     \/ ~CountersConfigured(vreport.Programs[i]))
        => verdict # "nil"

\* a report with a valid header whose first ProgramReport is fine and whose
\* second one has an unconfigured counter was validated
C2_Witness ==
    /\ validated
    /\ HeaderOK(vreport)
    /\ Len(vreport.Programs) = 2
    /\ vreport.Programs[1] = GoodGo
    /\ BuildAllowed(vreport.Programs[2])
    /\ ~CountersConfigured(vreport.Programs[2])
    /\ verdict = "unknown counter"

\* C3: a report whose Week is no calendar date, or whose Config is no
\* semantic version, or whose X is zero, is rejected with the error of the
\* first failing header check, whatever its Programs.
C3_BadHeaderRejects ==
    (validated /\ ~HeaderOK(vreport)) =>
        verdict = (IF vreport.Week \notin CalendarWeeks THEN "invalid week"
                   ELSE IF vreport.Config \notin SemverConfigs THEN "invalid config"
                   ELSE "invalid X")

\* a report with a good Week and Config, X = 0 and no Programs was rejected
C3_Witness ==
    /\ validated
    /\ vreport.Week \in CalendarWeeks
    /\ vreport.Config \in SemverConfigs
    /\ vreport.X = 0
    /\ vreport.Programs = <<>>
    /\ verdict = "invalid X"

\* C4: for a report that is otherwise acceptable, validate rejects it if and
\* only if some stack key's first line is not a stack counter of the
\* reporting program; and validate returns for any report what it returns for
\* the same report with the frame lines of every stack key dropped.
C4_StackJudgedByFirstLine ==
    validated =>
        /\ (/\ HeaderOK(vreport)
            /\ \A i \in 1..Len(vreport.Programs) :
                   BuildAllowed(vreport.Programs[i])
                   /\ CountersConfigured(vreport.Programs[i]))
           => (verdict # "nil" <=>
                   \E i \in 1..Len(vreport.Programs) :
                       ~StackLinesConfigured(vreport.Programs[i]))
        /\ verdict = validate(StripFrames(vreport), ucfg)

\* a report was accepted that has a stack key with two frame lines after a
\* configured first line
C4_Witness ==
    /\ verdict = "nil"
    /\ \E i \in 1..Len(vreport.Programs) :
           <<"s", "\n", "f", "\n", "g">> \in DOMAIN vreport.Programs[i].Stacks

\* C16: validate returns nil for every report whose Week is a calendar date,
\* whose Config is a semantic version, whose X is not zero and all of whose
\* ProgramReports have an allowed build tuple, only configured counter keys
\* and only stack keys with a configured first line; so also for such a
\* report with no ProgramReports at all.
C16_ValidReportsAccepted ==
    (/\ validated
     /\ HeaderOK(vreport)
     /\ \A i \in 1..Len(vreport.Programs) :
            /\ BuildAllowed(vreport.Programs[i])
            /\ CountersConfigured(vreport.Programs[i])
            /\ StackLinesConfigured(vreport.Programs[i]))
        => verdict = "nil"

\* two reports were accepted: one with no ProgramReports, written with a
\* leap day and a one-number Config, and one with two ProgramReports, the
\* second without any counter
C16_Witness ==
    /\ verdict = "nil"
    /\ \/ /\ vreport.Programs = <<>>
          /\ vreport.Week = <<"2", "0", "2", "4", "-", "0", "2", "-", "2", "9">>
          /\ vreport.Config = <<"v", "1">>
          /\ vreport.X = MaxX
       \/ /\ Len(vreport.Programs) = 2
          /\ vreport.Programs[2].Counters = NoMap
          /\ vreport.Programs[2].Stacks # NoMap

----------------------------------------------------------------------------
(* Claims about the upload endpoint.                                       *)

handled == spc = "responded"

\* the request handled is a POST whose body decoded to a report validate accepts
AcceptablePost ==
    /\ req.method = "POST"
    /\ req.body.kind = "json"
    /\ validate(req.body.report, ucfg) = "nil"

\* {Week}/{X}.json for a report whose X is a whole number below ten
NameOf(r) == r.Week \o <<"/", Digits[r.X + 1], ".", "j", "s", "o", "n">>

\* C1: when the handler has run on a POST whose body did not decode or whose
\* report validate rejects, it has answered 400 and the bucket is as it was
\* before the request.
C1_RejectedLeavesBucket ==
    (/\ handled
     /\ req.method = "POST"
     /\ (req.body.kind # "json" \/ validate(req.body.report, ucfg) # "nil"))
        => (resp = Error(StatusBadRequest) /\ bucket = before)

\* a report with an unconfigured counter was answered 400 while the bucket
\* held an object
C1_Witness ==
    /\ handled
    /\ req.method = "POST"
    /\ req.body.kind = "json"
    /\ validate(req.body.report, ucfg) = "unknown counter"
    /\ resp.status = StatusBadRequest
    /\ bucket # <<>>

\* C5: the handler has answered 200 only if the request was an acceptable
\* POST, no step of the write failed and the object {Week}/{X}.json holds the
\* report; and when NewWriter, Encode or Close failed on an acceptable POST
\* it has returned an error and not 200.
C5_OkOnlyAfterStored ==
    handled =>
        /\ resp.status = StatusOK =>
               /\ AcceptablePost
               /\ req.fault = "none"
               /\ ~resp.failed
               /\ NameOf(req.body.report) \in DOMAIN bucket
               /\ bucket[NameOf(req.body.report)] = req.body.report
        /\ (AcceptablePost /\ req.fault # "none") =>
               (resp.failed /\ resp.status # StatusOK)

\* an acceptable POST whose Close failed was answered with an error
C5_Witness ==
    /\ handled
    /\ AcceptablePost
    /\ req.fault = "Close"
    /\ resp.failed

\* C6: when the handler has run on a POST of a report that the bucket held
\* already under {Week}/{X}.json, the bucket is as it was before the request:
\* the same object names, the same content under each.
C6_ResubmitIdempotent ==
    (/\ handled
     /\ req.method = "POST"
     /\ req.body.kind = "json"
     /\ NameOf(req.body.report) \in DOMAIN before
     /\ before[NameOf(req.body.report)] = req.body.report)
        => bucket = before

\* a report already stored was posted again and answered 200, with another
\* object in the bucket
C6_Witness ==
    /\ handled
    /\ AcceptablePost
    /\ NameOf(req.body.report) \in DOMAIN before
    /\ before[NameOf(req.body.report)] = req.body.report
    /\ resp.status = StatusOK
    /\ Cardinality(DOMAIN bucket) = 2

\* C11: when the handler has run on a request whose method is not POST, it
\* has answered 405, it has made no call at all (no Decode, no validate, no
\* write to the bucket), it has logged nothing, and the bucket is as it was
\* before the request.
C11_NonPostNotAllowed ==
    (handled /\ req.method # "POST") =>
        /\ resp = Status(StatusMethodNotAllowed)
        /\ \A i \in 1..Len(calls) :
               calls[i] \notin {"Decode", "validate", "warn", "NewWriter", "Encode", "Close"}
        /\ logged = <<>>
        /\ bucket = before

\* a PUT whose body is a report that a POST would store was answered 405,
\* and the bucket, which held another object, does not hold it
C11_Witness ==
    /\ handled
    /\ req.method = "PUT"
    /\ req.body.kind = "json"
    /\ validate(req.body.report, ucfg) = "nil"
    /\ req.fault = "none"
    /\ resp.status = StatusMethodNotAllowed
    /\ bucket # <<>>
    /\ NameOf(req.body.report) \notin DOMAIN bucket

\* C15: at every moment every object of the bucket holds a report that
\* validate accepts against the server's config, and its name is
\* {Week}/{X}.json of the report it holds, with Week a calendar date and X
\* not zero.
C15_BucketHoldsValidReports ==
    \A n \in DOMAIN bucket :
        /\ validate(bucket[n], ucfg) = "nil"
        /\ HeaderOK(bucket[n])
        /\ n = NameOf(bucket[n])

\* after some requests the bucket holds two objects, one of them a report
\* with two ProgramReports, and no request is in flight
C15_Witness ==
    /\ spc = "idle"
    /\ Cardinality(DOMAIN bucket) = 2
    /\ \E n \in DOMAIN bucket : Len(bucket[n].Programs) = 2

\* the text of the error for the request in flight, when it is rejected
RejectText ==
    IF req.body.kind = "json" THEN errorText(req.body.report, ucfg)
    ELSE req.body.etext

\* the message the handler logs with it
RejectMsg ==
    IF req.body.kind = "json" THEN "invalid report" ELSE "invalid JSON payload"

\* C17: when the handler has rejected a POST it has logged one line, the
\* message, a colon and a space followed by at most 80 characters: the
\* error's text itself when that is 80 characters or fewer, else its first
\* 79 characters and one ellipsis.
C17_DiagnosticAtMost80 ==
    (handled /\ req.method = "POST" /\ resp.status = StatusBadRequest) =>
        /\ Len(logged) = 1
        /\ LET head == Text(RejectMsg) \o <<":", " ">>
               shown == Rest(logged[1], Len(head) + 1)
           IN /\ Len(logged[1]) >= Len(head)
              /\ SubSeq(logged[1], 1, Len(head)) = head
              /\ Len(shown) <= 80
              /\ Len(RejectText) <= 80 => shown = RejectText
              /\ Len(RejectText) > 80 =>
                     /\ Len(shown) = 80
                     /\ SubSeq(shown, 1, 79) = SubSeq(RejectText, 1, 79)
                     /\ shown[80] = Ellipsis

\* a report whose Week is 68 characters long was rejected: the error's text
\* has 81 characters, and the line logged ends with the first 66 characters
\* of the Week and the ellipsis
C17_Witness ==
    /\ handled
    /\ req.method = "POST"
    /\ req.body.kind = "json"
    /\ Len(req.body.report.Week) = 68
    /\ logged = <<Text("invalid report") \o <<":", " ">> \o Text("invalid week ")
                  \o SubSeq(req.body.report.Week, 1, 66) \o <<Ellipsis>>>>

\* the Close calls made so far on the object that report r is named for
ClosesOn(n) ==
    {i \in 1..Len(events) : events[i].call = "Close" /\ NameOf(hreq[events[i].h]) = n}

Max(S) == CHOOSE x \in S : \A y \in S : y <= x

\* C14: whatever reports are posted at the same time and however the
\* handlers interleave, a report that validate accepts is never refused
\* (it is answered 200 unless a call on the bucket failed), the one object
\* {Week}/{X}.json holds the whole report of the handler that closed its
\* writer last, and the bucket holds no other object.
C14_LastWriteWins ==
    /\ \A h \in Handlers :
           (hpc[h] = "done" /\ validate(hreq[h], ucfg) = "nil") =>
               /\ hresp[h] \in {Status(StatusOK), PlainError}
               /\ hresp[h] = Status(StatusOK) =>
                      \E i \in ClosesOn(NameOf(hreq[h])) : events[i].h = h
    /\ DOMAIN bucket =
           {NameOf(hreq[events[i].h]) : i \in {j \in 1..Len(events) : events[j].call = "Close"}}
    /\ \A n \in DOMAIN bucket :
           ClosesOn(n) # {} /\ bucket[n] = hreq[events[Max(ClosesOn(n))].h]

\* two different reports with the same Week and X were posted at the same
\* time: handler 1 opened its writer first and closed it last, both were
\* answered 200, and the object holds the report of handler 1
C14_Witness ==
    /\ hpc[1] = "done" /\ hpc[2] = "done"
    /\ hresp[1] = Status(StatusOK) /\ hresp[2] = Status(StatusOK)
    /\ hreq[1] # hreq[2]
    /\ NameOf(hreq[1]) = NameOf(hreq[2])
    /\ SubSeq(events, 1, 4) = <<[h |-> 1, call |-> "NewWriter"], [h |-> 2, call |-> "NewWriter"],
                               [h |-> 2, call |-> "Close"], [h |-> 1, call |-> "Close"]>>
    /\ bucket[NameOf(hreq[1])] = hreq[1]

----------------------------------------------------------------------------
(* Claims about the upload pass.                                           *)

Last(q) == q[Len(q)]

\* the reports of the ready list, as a set
InReady == {ready[i] : i \in 1..Len(ready)}

\* C7 as stated: once a pass has returned and a counter file is still in
\* place, untouched, at most one upload call has been made for it in all.
C7_AtMostOneCall ==
    \A f \in Files :
        (upc = "finished" /\ fstate[f] = "ready") => Len(trace[f]) <= 1

\* C7, amended: at most one report is ever built from a counter file, and an
\* upload call that was confirmed accepted is the last call made for the
\* file, over any number of passes and restarts.
C7_AtMostOneAcceptedCall ==
    \A f \in Files :
        /\ built[f] <= 1
        /\ \A i \in 1..Len(trace[f]) : trace[f][i] = "ok" => i = Len(trace[f])

\* a file whose first upload failed was uploaded again by a later pass,
\* accepted, and removed
C7_Witness ==
    \E f \in Files :
        /\ trace[f] = <<"fail", "ok">>
        /\ built[f] = 1
        /\ fstate[f] = "gone"
        /\ passes >= 2

\* C8: a counter file is gone only if the last upload of its report was
\* confirmed accepted; while the last upload of its report has failed the
\* file is in place and the report is kept, and every kept report is in the
\* ready list of a pass in progress; no file has two accepted uploads, and
\* the server holds at most one report with the file's counts.
C8_RemovedOnlyAfterAccepted ==
    /\ \A f \in Files :
           /\ fstate[f] = "gone" => (trace[f] # <<>> /\ Last(trace[f]) = "ok")
           /\ (trace[f] # <<>> /\ Last(trace[f]) # "ok") =>
                  (fstate[f] = "ready" /\ \E r \in pending : f \in r.files)
           /\ built[f] >= 1 =>
                  (fstate[f] = "gone" \/ \E r \in pending : f \in r.files)
           /\ Cardinality({i \in 1..Len(trace[f]) : trace[f][i] = "ok"}) <= 1
           /\ Cardinality({r \in stored : f \in r.files}) <= 1
    /\ upc = "uploading" => pending \subseteq InReady

\* the upload of a file's report failed in one pass, the file is in place
\* and its report is in the ready list of the next pass
C8_Witness ==
    \E f \in Files :
        /\ trace[f] = <<"fail">>
        /\ fstate[f] = "ready"
        /\ passes = 2
        /\ upc = "uploading"
        /\ \E r \in InReady : f \in r.files

\* C9: the uploads attempted in a pass are the reports of the ready list, in
\* its order, up to the position of the loop, and all of them once Run has
\* returned, whatever the outcomes.
C9_EveryReadyReportAttempted ==
    upc \in {"uploading", "finished"} =>
        /\ Len(attempts) <= Len(ready)
        /\ \A i \in 1..Len(attempts) : attempts[i].report = ready[i]
        /\ upc = "uploading" => Len(attempts) = idx - 1
        /\ upc = "finished" => Len(attempts) = Len(ready)

\* Run returned after a pass whose first upload failed and whose second
\* was accepted
C9_Witness ==
    /\ upc = "finished"
    /\ Len(ready) >= 2
    /\ Len(attempts) = Len(ready)
    /\ attempts[1].outcome = "fail"
    /\ attempts[2].outcome = "ok"

\* the operating systems and the architecture of the deny list
DenyOS == {"openbsd", "solaris", "android", "js", "wasip1"}
DenyArch == {"386"}

\* C12: on a platform of the deny list Run never does anything, however
\* often it is called and whatever counter files there are: no step of a
\* pass is taken (no findWork, no reports, no uploadReport), the cache and
\* the kept reports stay empty, nothing reaches the server and no counter
\* file is removed.
C12_DisabledRunIsNoOp ==
    (goos \in DenyOS \/ goarch \in DenyArch) =>
        /\ steps = <<>>
        /\ upc # "uploading"
        /\ ready = <<>>
        /\ attempts = <<>>
        /\ ~runErr
        /\ seen = {}
        /\ pending = {}
        /\ stored = {}
        /\ \A f \in Files :
               fstate[f] # "gone" /\ built[f] = 0 /\ trace[f] = <<>>

\* on linux/386 Run was called twice and has returned while two counter
\* files of concluded windows were waiting
C12_Witness ==
    /\ goos = "linux"
    /\ goarch = "386"
    /\ passes = 2
    /\ upc = "finished"
    /\ Cardinality({f \in Files : fstate[f] = "ready"}) >= 2

\* C18: in a pass whose reports step returned an error, Run has logged it
\* right after that step and has gone on: what it did then is one
\* uploadReport for each report of the ready list returned with the error,
\* in order, all of them once Run has returned.
C18_ReportsErrorDoesNotAbort ==
    (upc \in {"uploading", "finished"} /\ runErr) =>
        /\ steps = <<"findWork", "reports", "log">>
                   \o [i \in 1..Len(attempts) |-> "uploadReport"]
        /\ \A i \in 1..Len(attempts) :
               i <= Len(ready) /\ attempts[i].report = ready[i]
        /\ upc = "finished" => Len(attempts) = Len(ready)

\* Run has returned from a pass in which reports returned an error and two
\* ready reports, the first of which was accepted
C18_Witness ==
    /\ upc = "finished"
    /\ runErr
    /\ Len(ready) = 2
    /\ Len(attempts) = 2
    /\ attempts[1].outcome = "ok"
    /\ Len(steps) = 5

----------------------------------------------------------------------------
(* Claims about the crash monitor.                                         *)

\* the process is over: it exited or it died of a panic
ended == cpc \in {"exited", "crashed"}

\* the number of unrecovered panics that ended the process
panics == IF cpc = "crashed" THEN 1 ELSE 0

\* name is crash/crash followed by the frames of stack, newest first
NamesStack(name, stack) ==
    /\ Len(name) = Len(stack) + 1
    /\ name[1].sym = "crash/crash"
    /\ \A i \in 1..Len(stack) :
           /\ name[i + 1].sym = stack[Len(stack) + 1 - i].fn
           /\ name[i + 1].pkg = stack[Len(stack) + 1 - i].pkg
           /\ name[i + 1].line = stack[Len(stack) + 1 - i].line

\* C10 as stated: when a child process that called Start is over, the crash
\* monitor has made as many increments as panics ended it, one named after
\* the panic's stack or none.
C10_IncrementsEqualPanics ==
    ended =>
        /\ Len(incs) = panics
        /\ panics = 1 => NamesStack(incs[1], gstack)

\* C10, amended: the same on a runtime where Supported() holds; and the
\* file the stubbed counter writes is absent after an exit and holds the
\* name after a panic.
C10_IncrementsEqualPanicsWhenSupported ==
    (ended /\ supported) =>
        /\ Len(incs) = panics
        /\ panics = 1 => (NamesStack(incs[1], gstack) /\ tfile = <<incs[1]>>)
        /\ panics = 0 => tfile = <<>>

\* the panic of the tests: func2 called child, child called grandchild on
\* its line 2, grandchild panicked on its line 1, and the sanitized name of
\* the one increment is the one TestStart wants
C10_Witness ==
    /\ cpc = "crashed"
    /\ supported
    /\ Len(incs) = 1
    /\ sanitize(incs[1]) =
          <<[sym |-> "crash/crash", colon |-> FALSE, pkg |-> "", line |-> 0],
            [sym |-> "gopanic", colon |-> TRUE, pkg |-> "runtime", line |-> -1],
            [sym |-> "grandchild", colon |-> TRUE, pkg |-> CrashPkg, line |-> 1],
            [sym |-> "child", colon |-> TRUE, pkg |-> CrashPkg, line |-> 2],
            [sym |-> "TestMain.func2", colon |-> TRUE, pkg |-> CrashPkg, line |-> 1],
            [sym |-> "goexit", colon |-> TRUE, pkg |-> "runtime", line |-> -1]>>

\* the lines of a counter name that are frames of the crash monitor's package
OwnLines(name) == {i \in 1..Len(name) : name[i].colon /\ name[i].pkg = CrashPkg}

\* the frames of a stack that are in the crash monitor's package
OwnFrames(stack) == {i \in 1..Len(stack) : stack[i].pkg = CrashPkg}

\* C13 as stated: when a panic whose stack holds frames of the crash
\* monitor's own package has been counted, the sanitized counter name has no
\* line for a frame of that package.
C13_OwnFramesExcluded ==
    (cpc = "crashed" /\ Len(incs) = 1 /\ OwnFrames(gstack) # {}) =>
        OwnLines(sanitize(incs[1])) = {}

\* C13, amended: the sanitized counter name has one line for each frame of
\* the stack, those of the crash monitor's own package included, the most
\* recent call first; a line of the crash monitor's package keeps its line
\* number, and the line number of every other frame is redacted.
C13_OwnFramesKept ==
    (cpc = "crashed" /\ Len(incs) = 1) =>
        LET name == sanitize(incs[1])
        IN /\ Len(name) = Len(gstack) + 1
           /\ ~name[1].colon
           /\ Cardinality(OwnLines(name)) = Cardinality(OwnFrames(gstack))
           /\ \A i \in 1..Len(gstack) :
                  LET fr == gstack[Len(gstack) + 1 - i]
                  IN /\ name[i + 1].colon
                     /\ name[i + 1].sym = fr.fn
                     /\ name[i + 1].pkg = fr.pkg
                     /\ name[i + 1].line = (IF fr.pkg = CrashPkg THEN fr.line ELSE -1)

\* a panic three calls below the goroutine's function was counted: the
\* sanitized name has four lines of the crash monitor's package, the
\* second of them with line number 2, between two redacted runtime lines
C13_Witness ==
    /\ cpc = "crashed"
    /\ Len(incs) = 1
    /\ Len(gstack) = Len(GoroutineBase) + 4
    /\ LET name == sanitize(incs[1])
       IN /\ Cardinality(OwnLines(name)) = 4
          /\ name[2].pkg = "runtime" /\ name[2].line = -1
          /\ name[4].pkg = CrashPkg /\ name[4].line = 2
          /\ name[Len(name)].sym = "goexit" /\ name[Len(name)].line = -1

----------------------------------------------------------------------------
(* Claims about the upload package's logger.                               *)

\* the last call was LogIfDebug for a directory that is missing or is a file
NoDebugDir ==
    /\ lcall.fn = "LogIfDebug"
    /\ dirs[IF lcall.arg = "" THEN "LocalDir/debug" ELSE lcall.arg] \in {"missing", "file"}

\* C19: when LogIfDebug has been called for a debug directory that does not
\* exist or is not a directory, it has returned nil, it has created no log
\* file and the logger's output is what it was before the call.
C19_NoDebugDirReturnsNil ==
    NoDebugDir =>
        /\ lcall.ret = "nil"
        /\ logFiles = lcall.before.files
        /\ logger = lcall.before.logger
        /\ seenlogwriters = lcall.before.seen

\* the writers of the logger's output
WritersOf(out) == {out[i] : i \in 1..Len(out)}

\* line l was written to writer w
Got(w, l) == \E j \in 1..Len(sinks[w]) : sinks[w][j] = l

\* a Write of line l failed
FailedOn(l) == \E v \in AllWriters : Got(v, 0 - l)

\* C20: every writer passed to SetLogOutput so far, by a client or by
\* LogIfDebug, is one the logger writes to, and has been written every line
\* logged since it was first passed on which no Write failed; and when the
\* last call was SetLogOutput(nil), the logger's output and the writers seen
\* are what they were before it.
C20_AllWritersKept ==
    /\ \A w \in AllWriters :
           passed[w] >= 0 =>
               /\ w \in WritersOf(logger)
               /\ \A l \in (passed[w] + 1)..nlines : Got(w, l) \/ FailedOn(l)
    /\ (lcall.fn = "SetLogOutput" /\ lcall.arg = Nil) =>
           /\ logger = lcall.before.logger
           /\ seenlogwriters = lcall.before.seen

\* a client passed w1, a line was logged, LogIfDebug added the log file of
\* the debug directory, the client passed nil, and a second line was
\* logged: w1 has both lines and the log file the second
C20_Witness ==
    /\ lcall.fn = "SetLogOutput"
    /\ lcall.arg = Nil
    /\ passed["w1"] = 0
    /\ passed["LocalDir/debug/log"] = 1
    /\ nlines = 2
    /\ sinks["w1"] = <<1, 2>>
    /\ sinks["LocalDir/debug/log"] = <<2>>

====
